---- MODULE Spec2Model ----
(***************************************************************************)
(* monit_exporter: a Prometheus collector that, on every Collect, takes an *)
(* exclusive lock, resets the per-check gauge vector, scrapes monit (XML)  *)
(* and ejabberd (JSON), and emits the four gauges.                         *)
(*                                                                         *)
(* The model follows monit_exporter.go (Exporter, scrape, Collect, main)   *)
(* and ejabberd_user.go (FetchAndParseEjabberdStatus). Each concurrent     *)
(* Collect is a collector goroutine with a program counter; the upstream   *)
(* HTTP servers are the environment and choose every fetch outcome.        *)
(***************************************************************************)
EXTENDS Integers, Sequences, FiniteSets, TLC

\* ------------------------------------------------------------- bounds
\* Number of goroutines that may be inside Collect at once.
NumCollectors == 2
\* Total number of Collect calls in one behaviour.
MaxCollects == 3
\* Largest number of <service> elements in one monit document.
MaxServices == 2
\* Largest number of session objects in one ejabberd answer.
MaxSessions == 1

Collectors == 1..NumCollectors
NoCollector == 0

\* ------------------------------------------------------------- data
\* var serviceTypes = map[int]string{...}
serviceTypes ==
    [code \in 0..8 |->
        CASE code = 0 -> "filesystem"
          [] code = 1 -> "directory"
          [] code = 2 -> "file"
          [] code = 3 -> "program with pidfile"
          [] code = 4 -> "remote host"
          [] code = 5 -> "system"
          [] code = 6 -> "fifo"
          [] code = 7 -> "program with path"
          [] code = 8 -> "network"]

\* serviceTypes[service.Type]: a Go map read of a missing key yields "".
ServiceTypeName(code) ==
    IF code \in DOMAIN serviceTypes THEN serviceTypes[code] ELSE ""

\* The <service> elements the monit server may send (type attribute, name,
\* status, monitor). One has a type code of the table; two have different
\* type codes outside it and otherwise the same name and monitor state.
ServiceElems ==
    { [Type |-> 2,  Name |-> "a", Status |-> 0, Monitored |-> "1"],
      [Type |-> 9,  Name |-> "b", Status |-> 1, Monitored |-> "0"],
      [Type |-> 10, Name |-> "b", Status |-> 2, Monitored |-> "0"] }

SeqsUpTo(S, n) == UNION { [1..k -> S] : k \in 0..n }

\* A monit response body: an XML document that decodes, or bytes that do not.
MonitBodies ==
    { [wellformed |-> TRUE, services |-> s] : s \in SeqsUpTo(ServiceElems, MaxServices) }
    \cup { [wellformed |-> FALSE, services |-> << >>] }

\* The session objects the ejabberd server may send.
SessionElems ==
    { [Jid |-> "x@h", Uptime |-> 5], [Jid |-> "y@h", Uptime |-> 7] }

\* An ejabberd response body: a JSON array, or bytes that are not JSON.
EjabberdBodies ==
    { [valid |-> TRUE, users |-> u] : u \in SeqsUpTo(SessionElems, MaxSessions) }
    \cup { [valid |-> FALSE, users |-> << >>] }

\* ParseMonitStatus: decoder.Decode(&statusChunk); returns (statusChunk, err).
ParseMonitStatus(data) ==
    IF data.wellformed
    THEN [MonitServices |-> data.services, err |-> FALSE]
    ELSE [MonitServices |-> << >>, err |-> TRUE]

\* json.Unmarshal(data, &ejabberd) with its error dropped: bytes that are not
\* JSON leave the slice nil.
UnmarshalUsers(data) ==
    IF data.valid THEN data.users ELSE << >>

\* The label values of one service: check_name, type, monitored.
CheckLabels(service) ==
    << service.Name, ServiceTypeName(service.Type), service.Monitored >>

\* GaugeVec.With(labels).Set(v): one child per label combination.
GaugeSet(vec, labels, v) ==
    [l \in DOMAIN vec \cup {labels} |-> IF l = labels THEN v ELSE vec[l]]

\* GaugeVec.Reset(): no children.
EmptyVec == << >>

\* ------------------------------------------------------------- state
VARIABLES
    proc,                  \* "starting", "serving", "exited"
    exitCause,             \* why the process exited
    config,                \* *Config: which configured URLs parse
    mutex,                 \* e.mutex: the holder, or NoCollector
    up,                    \* e.up
    checkStatus,           \* e.checkStatus: labels -> value
    connectedUsersUptime,  \* e.connectedUsersUptime: jid -> value
    connectedUsersCount,   \* e.connectedUsersCount
    pc,                    \* position of each collector goroutine
    data,                  \* scrape: data
    parsedData,            \* scrape: parsedData.MonitServices
    idx,                   \* scrape: position of the range loops
    jabberData,            \* scrape: jabberData
    monitErr,              \* scrape: "none", "ok", "err" for the monit part
    ejabberdErr,           \* scrape: "none", "ok", "err" for the ejabberd part
    emitted,               \* what this Collect has sent on ch
    before,                \* session gauges when this Collect took the lock
    lastResult,            \* labels of the monit result of the previous cycle
    collects               \* Collect calls so far

vars == << proc, exitCause, config, mutex, up, checkStatus,
           connectedUsersUptime, connectedUsersCount, pc, data, parsedData,
           idx, jabberData, monitErr, ejabberdErr, emitted, before,
           lastResult, collects >>

gauges == << up, checkStatus, connectedUsersUptime, connectedUsersCount >>
locals == << data, parsedData, idx, jabberData, monitErr, ejabberdErr >>
process == << proc, exitCause, config >>

NoBody == [wellformed |-> FALSE, services |-> << >>]
NoEmit == [up |-> 0, checkStatus |-> EmptyVec, connectedUsersCount |-> 0,
           connectedUsersUptime |-> EmptyVec]
NoBefore == [connectedUsersUptime |-> EmptyVec, connectedUsersCount |-> 0]

\* ParseConfig, NewExporter: gauges at zero, vectors without children.
Init ==
    /\ proc = "starting"
    /\ exitCause = "none"
    /\ config \in [monit_scrape_uri_ok : BOOLEAN, ejabberd_uri_ok : BOOLEAN]
    /\ mutex = NoCollector
    /\ up = 0
    /\ checkStatus = EmptyVec
    /\ connectedUsersUptime = EmptyVec
    /\ connectedUsersCount = 0
    /\ pc = [t \in Collectors |-> "idle"]
    /\ data = [t \in Collectors |-> NoBody]
    /\ parsedData = [t \in Collectors |-> << >>]
    /\ idx = [t \in Collectors |-> 1]
    /\ jabberData = [t \in Collectors |-> << >>]
    /\ monitErr = [t \in Collectors |-> "none"]
    /\ ejabberdErr = [t \in Collectors |-> "none"]
    /\ emitted = [t \in Collectors |-> NoEmit]
    /\ before = [t \in Collectors |-> NoBefore]
    /\ lastResult = {}
    /\ collects = 0

\* ------------------------------------------------------------- main
\* http.ListenAndServe binds and serves.
ListenAndServe ==
    /\ proc = "starting"
    /\ proc' = "serving"
    /\ UNCHANGED << exitCause, config, mutex, gauges, pc, locals, emitted,
                    before, lastResult, collects >>

\* log.Fatal(http.ListenAndServe(...)): the listen address cannot be bound.
ListenFatal ==
    /\ proc = "starting"
    /\ proc' = "exited"
    /\ exitCause' = "bind"
    /\ UNCHANGED << config, mutex, gauges, pc, locals, emitted, before,
                    lastResult, collects >>

\* ------------------------------------------------------------- Collect
Serving == proc = "serving"

\* A scrape request reaches the registry, which calls e.Collect(ch).
CollectCall(t) ==
    /\ Serving
    /\ pc[t] = "idle"
    /\ collects < MaxCollects
    /\ collects' = collects + 1
    /\ pc' = [pc EXCEPT ![t] = "lock"]
    /\ UNCHANGED << process, mutex, gauges, locals, emitted, before, lastResult >>

\* A lock that lets a second goroutine in while the first holds it.
CollectLockUnguarded(t) ==
    /\ Serving
    /\ pc[t] = "lock"
    /\ mutex' = t
    /\ before' = [before EXCEPT ![t] =
                    [connectedUsersUptime |-> connectedUsersUptime,
                     connectedUsersCount |-> connectedUsersCount]]
    /\ pc' = [pc EXCEPT ![t] = "reset"]
    /\ UNCHANGED << process, gauges, locals, emitted, lastResult, collects >>

\* e.mutex.Lock(): blocks while another goroutine holds the mutex.
CollectLock(t) ==
    /\ Serving
    /\ pc[t] = "lock"
    /\ mutex = NoCollector
    /\ mutex' = t
    /\ before' = [before EXCEPT ![t] =
                    [connectedUsersUptime |-> connectedUsersUptime,
                     connectedUsersCount |-> connectedUsersCount]]
    /\ pc' = [pc EXCEPT ![t] = "reset"]
    /\ UNCHANGED << process, gauges, locals, emitted, lastResult, collects >>

\* A Collect that does not clear the vector before scraping.
CollectResetSkipped(t) ==
    /\ Serving
    /\ pc[t] = "reset"
    /\ pc' = [pc EXCEPT ![t] = "fetch_monit"]
    /\ UNCHANGED << process, mutex, gauges, locals, emitted, before,
                    lastResult, collects >>

\* e.checkStatus.Reset()
CollectReset(t) ==
    /\ Serving
    /\ pc[t] = "reset"
    /\ checkStatus' = EmptyVec
    /\ pc' = [pc EXCEPT ![t] = "fetch_monit"]
    /\ UNCHANGED << process, mutex, up, connectedUsersUptime, connectedUsersCount,
                    locals, emitted, before, lastResult, collects >>

\* ------------------------------------------------------------- FetchMonitStatus
\* http.NewRequest fails on a URL that does not parse; the error is logged,
\* req stays nil and req.SetBasicAuth dereferences it. The panic unwinds
\* Collect (the deferred Unlock runs) and, unrecovered, ends the process.
FetchMonitNewRequestPanic(t) ==
    /\ Serving
    /\ pc[t] = "fetch_monit"
    /\ ~config.monit_scrape_uri_ok
    /\ mutex' = IF mutex = t THEN NoCollector ELSE mutex
    /\ pc' = [pc EXCEPT ![t] = "panicked"]
    /\ proc' = "exited"
    /\ exitCause' = "panic"
    /\ UNCHANGED << config, gauges, locals, emitted, before, lastResult,
                    collects >>

\* client.Do(req) fails: return nil, err.
FetchMonitDoErr(t) ==
    /\ Serving
    /\ pc[t] = "fetch_monit"
    /\ config.monit_scrape_uri_ok
    /\ monitErr' = [monitErr EXCEPT ![t] = "err"]
    /\ pc' = [pc EXCEPT ![t] = "fetch_err"]
    /\ UNCHANGED << process, mutex, gauges, data, parsedData, idx, jabberData,
                    ejabberdErr, emitted, before, lastResult, collects >>

\* ioutil.ReadAll(resp.Body) fails: log.Fatal exits the process.
FetchMonitReadFatal(t) ==
    /\ Serving
    /\ pc[t] = "fetch_monit"
    /\ config.monit_scrape_uri_ok
    /\ proc' = "exited"
    /\ exitCause' = "monit_read"
    /\ UNCHANGED << config, mutex, gauges, pc, locals, emitted, before,
                    lastResult, collects >>

\* The body is read: return data, nil.
FetchMonitOk(t) ==
    /\ Serving
    /\ pc[t] = "fetch_monit"
    /\ config.monit_scrape_uri_ok
    /\ \E body \in MonitBodies : data' = [data EXCEPT ![t] = body]
    /\ pc' = [pc EXCEPT ![t] = "parse"]
    /\ UNCHANGED << process, mutex, gauges, parsedData, idx, jabberData,
                    monitErr, ejabberdErr, emitted, before, lastResult, collects >>

\* ------------------------------------------------------------- scrape
\* A fetch error that leaves the gauges as they are.
ScrapeFetchErrNoUpdate(t) ==
    /\ Serving
    /\ pc[t] = "fetch_err"
    /\ pc' = [pc EXCEPT ![t] = "emit_up"]
    /\ UNCHANGED << process, mutex, gauges, locals, emitted, before,
                    lastResult, collects >>

\* if err != nil { e.up.Set(0); e.checkStatus.Reset(); return err }
ScrapeFetchErr(t) ==
    /\ Serving
    /\ pc[t] = "fetch_err"
    /\ up' = 0
    /\ checkStatus' = EmptyVec
    /\ pc' = [pc EXCEPT ![t] = "emit_up"]
    /\ UNCHANGED << process, mutex, connectedUsersUptime, connectedUsersCount,
                    locals, emitted, before, lastResult, collects >>

\* A decode error after which the scrape goes on to the ejabberd fetch.
ScrapeParseErrContinues(t) ==
    /\ Serving
    /\ pc[t] = "parse"
    /\ ParseMonitStatus(data[t]).err
    /\ up' = 0
    /\ checkStatus' = EmptyVec
    /\ monitErr' = [monitErr EXCEPT ![t] = "err"]
    /\ pc' = [pc EXCEPT ![t] = "fetch_ejabberd"]
    /\ UNCHANGED << process, mutex, connectedUsersUptime, connectedUsersCount,
                    data, parsedData, idx, jabberData, ejabberdErr, emitted,
                    before, lastResult, collects >>

\* ParseMonitStatus fails: e.up.Set(0); e.checkStatus.Reset(); return err
ScrapeParseErr(t) ==
    /\ Serving
    /\ pc[t] = "parse"
    /\ ParseMonitStatus(data[t]).err
    /\ up' = 0
    /\ checkStatus' = EmptyVec
    /\ monitErr' = [monitErr EXCEPT ![t] = "err"]
    /\ pc' = [pc EXCEPT ![t] = "emit_up"]
    /\ UNCHANGED << process, mutex, connectedUsersUptime, connectedUsersCount,
                    data, parsedData, idx, jabberData, ejabberdErr, emitted,
                    before, lastResult, collects >>

\* ParseMonitStatus succeeds: e.up.Set(1) and the range loop starts.
ScrapeParseOk(t) ==
    /\ Serving
    /\ pc[t] = "parse"
    /\ ~ParseMonitStatus(data[t]).err
    /\ parsedData' = [parsedData EXCEPT ![t] = ParseMonitStatus(data[t]).MonitServices]
    /\ monitErr' = [monitErr EXCEPT ![t] = "ok"]
    /\ up' = 1
    /\ idx' = [idx EXCEPT ![t] = 1]
    /\ pc' = [pc EXCEPT ![t] = "checks"]
    /\ UNCHANGED << process, mutex, checkStatus, connectedUsersUptime,
                    connectedUsersCount, data, jabberData, ejabberdErr, emitted,
                    before, lastResult, collects >>

\* A loop body that keeps the value of a child that already exists.
ScrapeSetCheckKeepsFirst(t) ==
    /\ Serving
    /\ pc[t] = "checks"
    /\ idx[t] <= Len(parsedData[t])
    /\ LET service == parsedData[t][idx[t]]
       IN  checkStatus' =
               IF CheckLabels(service) \in DOMAIN checkStatus
               THEN checkStatus
               ELSE GaugeSet(checkStatus, CheckLabels(service), service.Status)
    /\ idx' = [idx EXCEPT ![t] = idx[t] + 1]
    /\ UNCHANGED << process, mutex, up, connectedUsersUptime, connectedUsersCount,
                    pc, data, parsedData, jabberData, monitErr, ejabberdErr,
                    emitted, before, lastResult, collects >>

\* for _, service := range parsedData.MonitServices {
\*     e.checkStatus.With(labels).Set(float64(service.Status)) }
\* float64 of a status code is exact below 2^53; the codes here are small.
ScrapeSetCheck(t) ==
    /\ Serving
    /\ pc[t] = "checks"
    /\ idx[t] <= Len(parsedData[t])
    /\ LET service == parsedData[t][idx[t]]
       IN  checkStatus' = GaugeSet(checkStatus, CheckLabels(service), service.Status)
    /\ idx' = [idx EXCEPT ![t] = idx[t] + 1]
    /\ UNCHANGED << process, mutex, up, connectedUsersUptime, connectedUsersCount,
                    pc, data, parsedData, jabberData, monitErr, ejabberdErr,
                    emitted, before, lastResult, collects >>

\* The range loop over the services ends; scrape calls the ejabberd fetch.
ScrapeChecksDone(t) ==
    /\ Serving
    /\ pc[t] = "checks"
    /\ idx[t] > Len(parsedData[t])
    /\ pc' = [pc EXCEPT ![t] = "fetch_ejabberd"]
    /\ UNCHANGED << process, mutex, gauges, locals, emitted, before,
                    lastResult, collects >>

\* ------------------------------------------------------------- FetchAndParseEjabberdStatus
\* http.NewRequest fails on a URL that does not parse: return nil, err.
EjabberdNewRequestErr(t) ==
    /\ Serving
    /\ pc[t] = "fetch_ejabberd"
    /\ ~config.ejabberd_uri_ok
    /\ ejabberdErr' = [ejabberdErr EXCEPT ![t] = "err"]
    /\ pc' = [pc EXCEPT ![t] = "ejabberd_returned"]
    /\ UNCHANGED << process, mutex, gauges, data, parsedData, idx, jabberData,
                    monitErr, emitted, before, lastResult, collects >>

\* client.Do(req) fails: return nil, err.
EjabberdDoErr(t) ==
    /\ Serving
    /\ pc[t] = "fetch_ejabberd"
    /\ config.ejabberd_uri_ok
    /\ ejabberdErr' = [ejabberdErr EXCEPT ![t] = "err"]
    /\ pc' = [pc EXCEPT ![t] = "ejabberd_returned"]
    /\ UNCHANGED << process, mutex, gauges, data, parsedData, idx, jabberData,
                    monitErr, emitted, before, lastResult, collects >>

\* ioutil.ReadAll(resp.Body) fails: log.Fatal exits the process.
EjabberdReadFatal(t) ==
    /\ Serving
    /\ pc[t] = "fetch_ejabberd"
    /\ config.ejabberd_uri_ok
    /\ proc' = "exited"
    /\ exitCause' = "ejabberd_read"
    /\ UNCHANGED << config, mutex, gauges, pc, locals, emitted, before,
                    lastResult, collects >>

\* The body is read and unmarshalled: return ejabberd, nil.
EjabberdOk(t) ==
    /\ Serving
    /\ pc[t] = "fetch_ejabberd"
    /\ config.ejabberd_uri_ok
    /\ \E body \in EjabberdBodies :
           jabberData' = [jabberData EXCEPT ![t] = UnmarshalUsers(body)]
    /\ ejabberdErr' = [ejabberdErr EXCEPT ![t] = "ok"]
    /\ pc' = [pc EXCEPT ![t] = "ejabberd_returned"]
    /\ UNCHANGED << process, mutex, gauges, data, parsedData, idx, monitErr,
                    emitted, before, lastResult, collects >>

\* An ejabberd error that takes back the availability flag.
ScrapeEjabberdErrRollsBack(t) ==
    /\ Serving
    /\ pc[t] = "ejabberd_returned"
    /\ ejabberdErr[t] = "err"
    /\ up' = 0
    /\ pc' = [pc EXCEPT ![t] = "emit_up"]
    /\ UNCHANGED << process, mutex, checkStatus, connectedUsersUptime,
                    connectedUsersCount, locals, emitted, before, lastResult,
                    collects >>

\* jabberData, err := FetchAndParseEjabberdStatus(e.config)
\* if err != nil { return err }
ScrapeEjabberdErr(t) ==
    /\ Serving
    /\ pc[t] = "ejabberd_returned"
    /\ ejabberdErr[t] = "err"
    /\ pc' = [pc EXCEPT ![t] = "emit_up"]
    /\ UNCHANGED << process, mutex, gauges, locals, emitted, before,
                    lastResult, collects >>

\* err == nil: the range loop over the sessions starts.
ScrapeEjabberdOk(t) ==
    /\ Serving
    /\ pc[t] = "ejabberd_returned"
    /\ ejabberdErr[t] = "ok"
    /\ idx' = [idx EXCEPT ![t] = 1]
    /\ pc' = [pc EXCEPT ![t] = "users"]
    /\ UNCHANGED << process, mutex, gauges, data, parsedData, jabberData,
                    monitErr, ejabberdErr, emitted, before, lastResult, collects >>

\* for _, user := range jabberData {
\*     e.connectedUsersUptime.With(labels).Set(float64(user.Uptime)) }
ScrapeSetUser(t) ==
    /\ Serving
    /\ pc[t] = "users"
    /\ idx[t] <= Len(jabberData[t])
    /\ LET user == jabberData[t][idx[t]]
       IN  connectedUsersUptime' =
               GaugeSet(connectedUsersUptime, user.Jid, user.Uptime)
    /\ idx' = [idx EXCEPT ![t] = idx[t] + 1]
    /\ UNCHANGED << process, mutex, up, checkStatus, connectedUsersCount, pc,
                    data, parsedData, jabberData, monitErr, ejabberdErr,
                    emitted, before, lastResult, collects >>

\* e.connectedUsersCount.Set(float64(len(jabberData))); return nil
ScrapeSetCount(t) ==
    /\ Serving
    /\ pc[t] = "users"
    /\ idx[t] > Len(jabberData[t])
    /\ connectedUsersCount' = Len(jabberData[t])
    /\ pc' = [pc EXCEPT ![t] = "emit_up"]
    /\ UNCHANGED << process, mutex, up, checkStatus, connectedUsersUptime,
                    locals, emitted, before, lastResult, collects >>

\* ------------------------------------------------------------- Collect: emission
\* An emission that starts after the mutex was given back.
CollectUpUnlocked(t) ==
    /\ Serving
    /\ pc[t] = "emit_up"
    /\ mutex' = NoCollector
    /\ emitted' = [emitted EXCEPT ![t].up = up]
    /\ pc' = [pc EXCEPT ![t] = "emit_checks"]
    /\ UNCHANGED << process, gauges, locals, before, lastResult, collects >>

\* e.up.Collect(ch)
CollectUp(t) ==
    /\ Serving
    /\ pc[t] = "emit_up"
    /\ emitted' = [emitted EXCEPT ![t].up = up]
    /\ pc' = [pc EXCEPT ![t] = "emit_checks"]
    /\ UNCHANGED << process, mutex, gauges, locals, before, lastResult, collects >>

\* e.checkStatus.Collect(ch)
CollectCheckStatus(t) ==
    /\ Serving
    /\ pc[t] = "emit_checks"
    /\ emitted' = [emitted EXCEPT ![t].checkStatus = checkStatus]
    /\ pc' = [pc EXCEPT ![t] = "emit_count"]
    /\ UNCHANGED << process, mutex, gauges, locals, before, lastResult, collects >>

\* e.connectedUsersCount.Collect(ch)
CollectUsersCount(t) ==
    /\ Serving
    /\ pc[t] = "emit_count"
    /\ emitted' = [emitted EXCEPT ![t].connectedUsersCount = connectedUsersCount]
    /\ pc' = [pc EXCEPT ![t] = "emit_uptime"]
    /\ UNCHANGED << process, mutex, gauges, locals, before, lastResult, collects >>

\* e.connectedUsersUptime.Collect(ch)
CollectUsersUptime(t) ==
    /\ Serving
    /\ pc[t] = "emit_uptime"
    /\ emitted' = [emitted EXCEPT ![t].connectedUsersUptime = connectedUsersUptime]
    /\ pc' = [pc EXCEPT ![t] = "unlock"]
    /\ UNCHANGED << process, mutex, gauges, locals, before, lastResult, collects >>

\* The label sets of a monit result.
ResultLabels(services) ==
    { CheckLabels(services[i]) : i \in 1..Len(services) }

\* return; defer e.mutex.Unlock(). The goroutine's locals go away.
CollectUnlock(t) ==
    /\ Serving
    /\ pc[t] = "unlock"
    /\ mutex' = NoCollector
    /\ lastResult' = IF monitErr[t] = "ok" THEN ResultLabels(parsedData[t]) ELSE {}
    /\ pc' = [pc EXCEPT ![t] = "idle"]
    /\ data' = [data EXCEPT ![t] = NoBody]
    /\ parsedData' = [parsedData EXCEPT ![t] = << >>]
    /\ idx' = [idx EXCEPT ![t] = 1]
    /\ jabberData' = [jabberData EXCEPT ![t] = << >>]
    /\ monitErr' = [monitErr EXCEPT ![t] = "none"]
    /\ ejabberdErr' = [ejabberdErr EXCEPT ![t] = "none"]
    /\ emitted' = [emitted EXCEPT ![t] = NoEmit]
    /\ before' = [before EXCEPT ![t] = NoBefore]
    /\ UNCHANGED << process, gauges, collects >>

\* ------------------------------------------------------------- specification
Step(t) ==
    \/ CollectLock(t)
    \/ CollectReset(t)
    \/ FetchMonitNewRequestPanic(t)
    \/ FetchMonitDoErr(t)
    \/ FetchMonitReadFatal(t)
    \/ FetchMonitOk(t)
    \/ ScrapeFetchErr(t)
    \/ ScrapeParseErr(t)
    \/ ScrapeParseOk(t)
    \/ ScrapeSetCheck(t)
    \/ ScrapeChecksDone(t)
    \/ EjabberdNewRequestErr(t)
    \/ EjabberdDoErr(t)
    \/ EjabberdReadFatal(t)
    \/ EjabberdOk(t)
    \/ ScrapeEjabberdErr(t)
    \/ ScrapeEjabberdOk(t)
    \/ ScrapeSetUser(t)
    \/ ScrapeSetCount(t)
    \/ CollectUp(t)
    \/ CollectCheckStatus(t)
    \/ CollectUsersCount(t)
    \/ CollectUsersUptime(t)
    \/ CollectUnlock(t)

Next ==
    \/ ListenAndServe
    \/ ListenFatal
    \/ \E t \in Collectors : CollectCall(t)
    \/ \E t \in Collectors : Step(t)

Spec == Init /\ [][Next]_vars

\* Every upstream call returns, a goroutine that can run does run, and the
\* mutex hands itself to a goroutine that keeps waiting for it.
Fairness ==
    \A t \in Collectors : WF_vars(Step(t)) /\ SF_vars(CollectLock(t))

FairSpec == Spec /\ Fairness

\* ------------------------------------------------------------- properties
\* The moment a Collect has sent all four gauges on ch, the lock still held.
Emitted(t) == pc[t] = "unlock"

\* The positions between the return of Lock and the deferred Unlock.
InLockedRegion(t) ==
    pc[t] \in { "reset", "fetch_monit", "fetch_err", "parse", "checks",
                "fetch_ejabberd", "ejabberd_returned", "users", "emit_up",
                "emit_checks", "emit_count", "emit_uptime", "unlock" }

\* The status of the last element of services that carries labels l.
LastStatus(services, l) ==
    LET last == CHOOSE i \in 1..Len(services) :
                    /\ CheckLabels(services[i]) = l
                    /\ \A j \in (i + 1)..Len(services) : CheckLabels(services[j]) # l
    IN  services[last].Status

\* The per-check vector that one monit result describes.
ExpectedChecks(services) ==
    [l \in ResultLabels(services) |-> LastStatus(services, l)]

\* The labels of this cycle's monit result (none when the monit part failed).
CycleLabels(t) ==
    IF monitErr[t] = "ok" THEN ResultLabels(parsedData[t]) ELSE {}

JidsOf(users) == { users[i].Jid : i \in 1..Len(users) }

\* C1: a check that was in the monit result of the previous cycle and is not
\* in the result of this cycle is not among the per-check gauges this Collect
\* emits, whether this cycle's monit fetch succeeded or failed.
C1_NoStaleCheckLabels ==
    \A t \in Collectors :
        Emitted(t) =>
            \A l \in lastResult \ CycleLabels(t) :
                l \notin DOMAIN emitted[t].checkStatus

C1_Witness ==
    \E t \in Collectors :
        /\ Emitted(t)
        /\ monitErr[t] = "ok"
        /\ parsedData[t] # << >>
        /\ lastResult \ CycleLabels(t) # {}

\* C2: when the monit fetch or the decoding fails, the Collect emits up = 0
\* and no per-check gauge, whatever the gauges held before.
C2_MonitFailureClears ==
    \A t \in Collectors :
        (Emitted(t) /\ monitErr[t] = "err") =>
            /\ emitted[t].up = 0
            /\ emitted[t].checkStatus = EmptyVec

C2_Witness ==
    \E t \in Collectors :
        /\ Emitted(t)
        /\ monitErr[t] = "err"
        /\ lastResult # {}

\* C3: when the monit part succeeds and the ejabberd fetch returns an error,
\* the Collect emits up = 1 and the per-check gauges of this cycle's monit
\* result, and the session gauges it emits are those from before the call.
C3_EjabberdErrorKeepsSessions ==
    \A t \in Collectors :
        (Emitted(t) /\ monitErr[t] = "ok" /\ ejabberdErr[t] = "err") =>
            /\ emitted[t].up = 1
            /\ emitted[t].checkStatus = ExpectedChecks(parsedData[t])
            /\ emitted[t].connectedUsersUptime = before[t].connectedUsersUptime
            /\ emitted[t].connectedUsersCount = before[t].connectedUsersCount
            /\ connectedUsersUptime = before[t].connectedUsersUptime
            /\ connectedUsersCount = before[t].connectedUsersCount

C3_Witness ==
    \E t \in Collectors :
        /\ Emitted(t)
        /\ monitErr[t] = "ok"
        /\ ejabberdErr[t] = "err"
        /\ parsedData[t] # << >>
        /\ before[t].connectedUsersUptime # EmptyVec

\* C4 as stated: after a successful scrape of a result with N service
\* elements the per-check gauge set has exactly N entries, each matching one
\* decoded element.
C4_ExactlyNEntries ==
    \A t \in Collectors :
        (Emitted(t) /\ monitErr[t] = "ok") =>
            /\ Cardinality(DOMAIN emitted[t].checkStatus) = Len(parsedData[t])
            /\ \A l \in DOMAIN emitted[t].checkStatus :
                   \E i \in 1..Len(parsedData[t]) :
                       /\ CheckLabels(parsedData[t][i]) = l
                       /\ parsedData[t][i].Status = emitted[t].checkStatus[l]

\* C4 amended: after a successful scrape the per-check gauge set has one
\* entry per distinct (name, type-name, monitored) among the N decoded
\* elements, valued with the status of the last element carrying those
\* labels; it has N entries when the N label sets are pairwise distinct.
C4_OneEntryPerLabelSet ==
    \A t \in Collectors :
        (Emitted(t) /\ monitErr[t] = "ok") =>
            LET vec == emitted[t].checkStatus
                services == parsedData[t]
            IN  /\ DOMAIN vec = ResultLabels(services)
                /\ \A l \in DOMAIN vec : vec[l] = LastStatus(services, l)
                /\ (Cardinality(ResultLabels(services)) = Len(services)
                        => Cardinality(DOMAIN vec) = Len(services))

C4_Witness ==
    \E t \in Collectors :
        /\ Emitted(t)
        /\ monitErr[t] = "ok"
        /\ Len(parsedData[t]) = 2
        /\ parsedData[t][1].Status # parsedData[t][2].Status
        /\ Cardinality(DOMAIN emitted[t].checkStatus) = 1

\* C5: the per-session uptime gauges a Collect emits carry only session
\* identities returned by the ejabberd fetch of that cycle.
C5_SessionsOnlyFromLatestFetch ==
    \A t \in Collectors :
        (Emitted(t) /\ ejabberdErr[t] = "ok") =>
            DOMAIN emitted[t].connectedUsersUptime \subseteq JidsOf(jabberData[t])

\* C6: at most one Collect is between its Reset and the end of its emission,
\* it holds the mutex all that time, and the monit result it works on is one
\* it fetched itself after taking the lock.
C6_OneScrapeAtATime ==
    /\ Cardinality({ t \in Collectors : InLockedRegion(t) }) <= 1
    /\ \A t \in Collectors :
        /\ InLockedRegion(t) => mutex = t
        /\ pc[t] \in { "idle", "lock", "reset", "fetch_monit" } =>
               (monitErr[t] = "none" /\ data[t] = NoBody /\ parsedData[t] = << >>)
        /\ pc[t] \in { "emit_up", "emit_checks", "emit_count", "emit_uptime",
                       "unlock" } => monitErr[t] # "none"

C6_Witness ==
    \E t, u \in Collectors :
        /\ t # u
        /\ pc[t] = "checks"
        /\ pc[u] = "lock"
        /\ collects >= 2

\* C7: with Collect calls running concurrently, each emits exactly the
\* per-check set of its own cycle's monit result with up = 1, or no
\* per-check gauge with up = 0 when its own monit part failed.
C7_SelfConsistentSnapshot ==
    \A t \in Collectors :
        Emitted(t) =>
            IF monitErr[t] = "ok"
            THEN /\ emitted[t].up = 1
                 /\ emitted[t].checkStatus = ExpectedChecks(parsedData[t])
            ELSE /\ emitted[t].up = 0
                 /\ emitted[t].checkStatus = EmptyVec

C7_Witness ==
    \E t, u \in Collectors :
        /\ t # u
        /\ Emitted(t)
        /\ pc[u] = "lock"
        /\ monitErr[t] = "ok"
        /\ parsedData[t] # << >>
        /\ lastResult # {}
        /\ lastResult # ResultLabels(parsedData[t])

\* C8: no error during a scrape ends the process; the only fatal error is
\* the failure to bind the listen address at startup.
C8_OnlyBindFailureIsFatal ==
    proc = "exited" => exitCause = "bind"

\* C9: the ejabberd fetch is issued only after the monit fetch and decode
\* succeeded and the per-check gauges were populated; when the monit part
\* fails no ejabberd fetch is issued and the session gauges stay unchanged.
C9_EjabberdOnlyAfterMonit ==
    \A t \in Collectors :
        /\ (pc[t] = "fetch_ejabberd" \/ ejabberdErr[t] # "none") =>
               monitErr[t] = "ok"
        /\ pc[t] = "fetch_ejabberd" =>
               (up = 1 /\ checkStatus = ExpectedChecks(parsedData[t]))
        /\ (InLockedRegion(t) /\ monitErr[t] = "err") =>
               /\ ejabberdErr[t] = "none"
               /\ connectedUsersUptime = before[t].connectedUsersUptime
               /\ connectedUsersCount = before[t].connectedUsersCount

C9_Witness ==
    \E t \in Collectors :
        /\ Emitted(t)
        /\ monitErr[t] = "err"
        /\ data[t] = NoBody
        /\ before[t].connectedUsersUptime # EmptyVec
        /\ emitted[t].connectedUsersUptime = before[t].connectedUsersUptime

\* C10: when every upstream call returns, a Collect that waits for the lock
\* eventually gets it, runs its scrape and emits its metrics.
C10_WaitingCollectEmits ==
    \A t \in Collectors : (pc[t] = "lock") ~> Emitted(t)

====
